---- MODULE Spec2Model ----
(***************************************************************************)
(* The tool-dispatch relay of agents/3_openai_tool_calling.py              *)
(* (run_conversation and its five handlers) and the profile validation of  *)
(* agents/2_pydantic_ai_validation.py.                                     *)
(*                                                                         *)
(* JSON values are tagged records: [str |-> s] a string, [num |-> n] a     *)
(* number, [list |-> q] an array.  TLC's strings are atomic, so a string   *)
(* whose characters the code reads is given its characters by StrChars.    *)
(* Prices of the stock table are kept in hundredths (178.50 is 17850).     *)
(***************************************************************************)
EXTENDS Integers, Sequences, FiniteSets, TLC

VARIABLES
    pc,               \* position of run_conversation
    user_query,       \* its argument
    messages,         \* the conversation list
    requests,         \* completion requests issued by run_conversation, in order
    response_message, \* response.choices[0].message of the first completion
    second_response,  \* second_response.choices[0].message
    next_call,        \* index in tool_calls of the call the for loop handles next
    invoked,          \* handler invocations whose body ran, in order
    final_answer,     \* the value returned
    error,            \* the exception that ended the query, or NoError
    calls,            \* log of direct handler calls (name, arguments, outcome)
    ppc,              \* position of the profile script
    candidate,        \* the data handed to PersonProfile.model_validate
    validation,       \* the outcome of model_validate
    profile_result,   \* the instance example_person_profile got back
    api_requests,     \* completion requests issued by the profile script
    runs              \* the locals of each of the concurrent run_conversation executions

vars == <<pc, user_query, messages, requests, response_message, second_response,
          next_call, invoked, final_answer, error, calls,
          ppc, candidate, validation, profile_result, api_requests, runs>>

relay_vars == <<pc, user_query, messages, requests, response_message,
                second_response, next_call, invoked, final_answer, error>>

profile_vars == <<ppc, candidate, validation, profile_result, api_requests>>

----------------------------------------------------------------------------
(* Bounds of the model. *)

\* the most tool calls one assistant message carries
MaxCalls == 2

\* the most direct handler calls the handler log records
MaxInvocations == 3

\* the number of run_conversation executions running at the same time
NumExecutions == 2

----------------------------------------------------------------------------
(* JSON values and Python strings. *)

Str(s) == [str |-> s]

Num(n) == [num |-> n]

List(q) == [list |-> q]

IsStr(v) == DOMAIN v = {"str"}

IsNum(v) == DOMAIN v = {"num"}

IsList(v) == DOMAIN v = {"list"}

\* length of the long e-mail body of the model
LongBodyLen == 60

Digits == {"0", "1", "2", "3", "4", "5", "6", "7", "8", "9"}

\* the characters of the strings whose characters the handlers read
StrChars(s) ==
    CASE s = "2 + 2"    -> <<"2", " ", "+", " ", "2">>
      [] s = "157*23"   -> <<"1", "5", "7", "*", "2", "3">>
      [] s = "1/0"      -> <<"1", "/", "0">>
      [] s = "7//2"     -> <<"7", "/", "/", "2">>
      [] s = "9-12"     -> <<"9", "-", "1", "2">>
      [] s = "2 +"      -> <<"2", " ", "+">>
      [] s = "2+a"      -> <<"2", "+", "a">>
      [] s = "42"       -> <<"4", "2">>
      [] s = "2 PM"     -> <<"2", " ", "P", "M">>
      [] s = "long-body" -> [k \in 1..LongBodyLen |-> "x"]
      [] s = "Bob"      -> <<"B", "o", "b">>
      [] s = " Bob "    -> <<" ", "B", "o", "b", " ">>
      [] s = "   "      -> <<" ", " ", " ">>
      [] s = ""         -> <<>>

\* str.lower() on the strings of the model
Lower(s) ==
    CASE s = "Tokyo"  -> "tokyo"
      [] s = "PARIS"  -> "paris"
      [] s = "London" -> "london"
      [] OTHER        -> s

\* str.upper() on the strings of the model
Upper(s) ==
    CASE s = "aapl" -> "AAPL"
      [] s = "Msft" -> "MSFT"
      [] s = "xyz"  -> "XYZ"
      [] OTHER      -> s

\* dict.get(key, default)
DictGet(d, key, default) == IF key \in DOMAIN d THEN d[key] ELSE default

\* a handler returned value
Returned(value) == [raised |-> FALSE, value |-> value]

\* a handler let exception exc escape
Raised(exc) == [raised |-> TRUE, exc |-> exc]

----------------------------------------------------------------------------
(* The five handlers. Each takes the keyword arguments it was called with,   *)
(* already bound to its parameters.                                          *)

weather_data ==
    ("london"   :> [temp |-> 15, condition |-> "Cloudy", humidity |-> 65]) @@
    ("new york" :> [temp |-> 22, condition |-> "Sunny", humidity |-> 45]) @@
    ("tokyo"    :> [temp |-> 18, condition |-> "Rainy", humidity |-> 80]) @@
    ("paris"    :> [temp |-> 17, condition |-> "Partly Cloudy", humidity |-> 55]) @@
    ("sydney"   :> [temp |-> 25, condition |-> "Sunny", humidity |-> 50])

get_weather(kw) ==
    LET location == kw.location
        unit == IF "unit" \in DOMAIN kw THEN kw.unit ELSE Str("celsius")
    IN  IF ~IsStr(location)
        THEN Raised("AttributeError")
        ELSE LET data == DictGet(weather_data, Lower(location.str),
                                 [temp |-> 20, condition |-> "Unknown", humidity |-> 50])
             IN  Returned([location |-> location,
                           temperature |-> data.temp,
                           unit |-> unit,
                           condition |-> data.condition,
                           humidity |-> data.humidity])

stock_data ==
    ("AAPL"  :> [price |-> 17850, change |-> 230, change_percent |-> 131]) @@
    ("GOOGL" :> [price |-> 14280, change |-> -120, change_percent |-> -83]) @@
    ("MSFT"  :> [price |-> 41530, change |-> 540, change_percent |-> 132]) @@
    ("TSLA"  :> [price |-> 24280, change |-> 860, change_percent |-> 367]) @@
    ("AMZN"  :> [price |-> 17825, change |-> -50, change_percent |-> -28])

\* get_stock_price reading a price that moves with every handler call made
get_stock_price_drifting(kw) ==
    LET symbol == kw.symbol
    IN  IF ~IsStr(symbol)
        THEN Raised("AttributeError")
        ELSE LET symbol_upper == Upper(symbol.str)
                 data == DictGet(stock_data, symbol_upper,
                                 [price |-> 0, change |-> 0, change_percent |-> 0])
             IN  Returned([symbol |-> symbol_upper,
                           price |-> data.price + Len(calls),
                           change |-> data.change,
                           change_percent |-> data.change_percent])

get_stock_price(kw) ==
    LET symbol == kw.symbol
    IN  IF ~IsStr(symbol)
        THEN Raised("AttributeError")
        ELSE LET symbol_upper == Upper(symbol.str)
                 data == DictGet(stock_data, symbol_upper,
                                 [price |-> 0, change |-> 0, change_percent |-> 0])
             IN  Returned([symbol |-> symbol_upper,
                           price |-> data.price,
                           change |-> data.change,
                           change_percent |-> data.change_percent])

\* the length at which send_email cuts the body preview
PreviewLen == 50

send_email(kw) ==
    LET body == kw.body
    IN  IF ~IsStr(body)
        THEN \* len() of a number
             Raised("TypeError")
        ELSE LET chars == StrChars(body.str)
                 body_preview == IF Len(chars) > PreviewLen
                                 THEN [chars |-> SubSeq(chars, 1, PreviewLen)
                                                   \o <<".", ".", ".">>]
                                 ELSE body
             IN  Returned([status |-> "success",
                           message |-> [sent_to |-> kw.to],
                           to |-> kw.to,
                           subject |-> kw.subject,
                           body_preview |-> body_preview])

database ==
    [users |-> << [id |-> 1, name |-> "Alice Johnson", email |-> "alice@example.com"],
                  [id |-> 2, name |-> "Bob Smith", email |-> "bob@example.com"],
                  [id |-> 3, name |-> "Charlie Brown", email |-> "charlie@example.com"] >>,
     products |-> << [id |-> 101, name |-> "Laptop", price |-> 999],
                     [id |-> 102, name |-> "Mouse", price |-> 29],
                     [id |-> 103, name |-> "Keyboard", price |-> 79] >>,
     orders |-> << [id |-> 501, customer |-> "Alice", total |-> 1107],
                   [id |-> 502, customer |-> "Bob", total |-> 79] >>]

search_database(kw) ==
    LET table == IF "table" \in DOMAIN kw THEN kw.table ELSE Str("users")
    IN  IF IsList(table)
        THEN Raised("TypeError")
        ELSE LET table_data == IF IsStr(table)
                               THEN DictGet(database, table.str, <<>>)
                               ELSE <<>>
             IN  Returned([table |-> table,
                           query |-> kw.query,
                           results |-> table_data,
                           count |-> Len(table_data)])

----------------------------------------------------------------------------
(* calculate: the allow-list of characters, then eval.  PyEval is Python's   *)
(* eval on the expressions NUMBER and NUMBER op NUMBER, op one of + - * /    *)
(* and //, with blanks between the tokens; any other token sequence of the   *)
(* model's expressions is a syntax error in Python as well.                  *)

allowed_chars == Digits \cup {"+", "-", "*", "/", "(", ")", ".", " "}

DigitValue(c) ==
    CASE c = "0" -> 0 [] c = "1" -> 1 [] c = "2" -> 2 [] c = "3" -> 3
      [] c = "4" -> 4 [] c = "5" -> 5 [] c = "6" -> 6 [] c = "7" -> 7
      [] c = "8" -> 8 [] c = "9" -> 9

\* the tokens of a character sequence: numbers, operators, other characters
RECURSIVE Tokenize(_, _)
Tokenize(chars, k) ==
    IF k > Len(chars) THEN <<>>
    ELSE IF chars[k] = " " THEN Tokenize(chars, k + 1)
    ELSE IF chars[k] \in Digits
         THEN LET rest == Tokenize(chars, k + 1)
              IN  IF k < Len(chars) /\ chars[k + 1] \in Digits
                  THEN \* the digit run goes on: prepend this digit to its number
                       <<[num |-> <<chars[k]>> \o Head(rest).num]>> \o Tail(rest)
                  ELSE <<[num |-> <<chars[k]>>]>> \o rest
    ELSE IF chars[k] = "/" /\ k < Len(chars) /\ chars[k + 1] = "/"
         THEN <<[op |-> "//"]>> \o Tokenize(chars, k + 2)
    ELSE <<[op |-> chars[k]]>> \o Tokenize(chars, k + 1)

RECURSIVE NumberValue(_)
NumberValue(digits) ==
    IF digits = <<>> THEN 0
    ELSE 10 * NumberValue(SubSeq(digits, 1, Len(digits) - 1))
         + DigitValue(digits[Len(digits)])

IsNumberToken(t) == DOMAIN t = {"num"}

PyEval(chars) ==
    LET toks == Tokenize(chars, 1)
    IN  IF Len(toks) = 1 /\ IsNumberToken(toks[1])
        THEN Returned(Num(NumberValue(toks[1].num)))
        ELSE IF /\ Len(toks) = 3
                /\ IsNumberToken(toks[1])
                /\ ~IsNumberToken(toks[2])
                /\ toks[2].op \in {"+", "-", "*", "/", "//"}
                /\ IsNumberToken(toks[3])
        THEN LET a == NumberValue(toks[1].num)
                 b == NumberValue(toks[3].num)
                 op == toks[2].op
             IN  CASE op = "+" -> Returned(Num(a + b))
                   [] op = "-" -> Returned(Num(a - b))
                   [] op = "*" -> Returned(Num(a * b))
                   [] op = "/" -> IF b = 0 THEN Raised("division by zero")
                                  ELSE Returned([float |-> <<a, b>>])
                   [] op = "//" -> IF b = 0
                                   THEN Raised("integer division or modulo by zero")
                                   ELSE Returned(Num(a \div b))
        ELSE Raised("invalid syntax")

\* calculate without its try/except: what the evaluation raises escapes
calculate_unguarded(kw) ==
    LET expression == kw.expression
    IN  IF ~IsStr(expression)
        THEN Raised("TypeError")
        ELSE LET chars == StrChars(expression.str)
             IN  IF ~(\A k \in 1..Len(chars) : chars[k] \in allowed_chars)
                 THEN Returned([error |-> "Invalid characters in expression"])
                 ELSE LET result == PyEval(chars)
                      IN  IF result.raised
                          THEN Raised(result.exc)
                          ELSE Returned([expression |-> expression,
                                         result |-> result.value])

calculate(kw) ==
    LET expression == kw.expression
    IN  IF ~IsStr(expression)
        THEN \* iterating a non-string raises inside the try block
             Returned([error |-> "object is not iterable"])
        ELSE LET chars == StrChars(expression.str)
             IN  IF ~(\A k \in 1..Len(chars) : chars[k] \in allowed_chars)
                 THEN Returned([error |-> "Invalid characters in expression"])
                 ELSE LET result == PyEval(chars)
                      IN  IF result.raised
                          THEN Returned([error |-> result.exc])
                          ELSE Returned([expression |-> expression,
                                         result |-> result.value])

----------------------------------------------------------------------------
(* Dispatch: json.loads of the arguments payload, the handler table, and    *)
(* the call of the handler on the keyword arguments.                               *)

Dict(kw) == [dict |-> kw]

IsDict(v) == DOMAIN v = {"dict"}

\* the payload texts of the model that are not JSON
MalformedPayloads == {"{\"location\": \"Par", ""}

\* the value of the payload texts of the model that are JSON
JsonValue(text) ==
    CASE text = "{\"location\": \"Tokyo\"}"
           -> Dict([location |-> Str("Tokyo")])
      [] text = "{\"location\": \"PARIS\", \"unit\": \"fahrenheit\"}"
           -> Dict([location |-> Str("PARIS"), unit |-> Str("fahrenheit")])
      [] text = "{\"location\": 5}"
           -> Dict([location |-> Num(5)])
      [] text = "{\"expression\": \"157*23\"}"
           -> Dict([expression |-> Str("157*23")])
      [] text = "{\"expression\": \"2 + 2\"}"
           -> Dict([expression |-> Str("2 + 2")])
      [] text = "{\"expression\": \"1/0\"}"
           -> Dict([expression |-> Str("1/0")])
      [] text = "{\"expression\": \"7//2\"}"
           -> Dict([expression |-> Str("7//2")])
      [] text = "{\"expression\": \"9-12\"}"
           -> Dict([expression |-> Str("9-12")])
      [] text = "{\"expression\": \"2 +\"}"
           -> Dict([expression |-> Str("2 +")])
      [] text = "{\"expression\": \"2+a\"}"
           -> Dict([expression |-> Str("2+a")])
      [] text = "{\"expression\": 5}"
           -> Dict([expression |-> Num(5)])
      [] text = "{\"symbol\": \"aapl\"}"
           -> Dict([symbol |-> Str("aapl")])
      [] text = "{\"symbol\": \"xyz\"}"
           -> Dict([symbol |-> Str("xyz")])
      [] text = "{\"symbol\": 7}"
           -> Dict([symbol |-> Num(7)])
      [] text = "{\"to\": \"john@example.com\", \"subject\": \"Meeting\", \"body\": \"2 PM\"}"
           -> Dict([to |-> Str("john@example.com"),
                             subject |-> Str("Meeting"), body |-> Str("2 PM")])
      [] text = "{\"to\": \"john@example.com\", \"subject\": \"Meeting\", \"body\": \"long-body\"}"
           -> Dict([to |-> Str("john@example.com"),
                             subject |-> Str("Meeting"), body |-> Str("long-body")])
      [] text = "{\"to\": \"john@example.com\", \"subject\": \"Meeting\", \"body\": 7}"
           -> Dict([to |-> Str("john@example.com"),
                             subject |-> Str("Meeting"), body |-> Num(7)])
      [] text = "{\"query\": \"alice\"}"
           -> Dict([query |-> Str("alice")])
      [] text = "{\"query\": \"mouse\", \"table\": \"products\"}"
           -> Dict([query |-> Str("mouse"), table |-> Str("products")])
      [] text = "{\"query\": \"x\", \"table\": \"nope\"}"
           -> Dict([query |-> Str("x"), table |-> Str("nope")])
      [] text = "{\"query\": \"x\", \"table\": [\"users\"]}"
           -> Dict([query |-> Str("x"), table |-> List(<<Str("users")>>)])
      [] text = "{\"topic\": \"ai\"}"
           -> Dict([topic |-> Str("ai")])
      [] text = "{}"
           -> Dict(<<>>)
      [] text = "[1]"
           -> List(<<Num(1)>>)

\* json.loads that answers an empty object for a text it cannot parse
JsonLoads_lenient(text) ==
    IF text \in MalformedPayloads
    THEN Returned(Dict(<<>>))
    ELSE Returned(JsonValue(text))

\* json.loads on the payload texts of the model
JsonLoads(text) ==
    IF text \in MalformedPayloads
    THEN Raised("JSONDecodeError")
    ELSE Returned(JsonValue(text))

\* json.dumps: the serialised text of a value
JsonDumps(value) == [json |-> value]

\* the keys of available_functions
available_functions ==
    {"get_weather", "calculate", "get_stock_price", "send_email", "search_database"}

\* LookupHandler falling back to a default handler, as dict.get would
LookupHandler_with_default(function_name) ==
    IF function_name \in available_functions
    THEN Returned(function_name)
    ELSE Returned("get_weather")

\* available_functions[function_name]: the handler's name, or KeyError
LookupHandler(function_name) ==
    IF function_name \in available_functions
    THEN Returned(function_name)
    ELSE Raised("KeyError")

\* the parameters without a default of each handler
RequiredParams(name) ==
    CASE name = "get_weather"     -> {"location"}
      [] name = "calculate"       -> {"expression"}
      [] name = "get_stock_price" -> {"symbol"}
      [] name = "send_email"      -> {"to", "subject", "body"}
      [] name = "search_database" -> {"query"}

\* the parameters with a default of each handler
OptionalParams(name) ==
    CASE name = "get_weather"     -> {"unit"}
      [] name = "search_database" -> {"table"}
      [] OTHER                    -> {}

\* whether the keyword arguments bind to the parameters, so that the body runs
Binds(name, function_args) ==
    /\ IsDict(function_args)
    /\ RequiredParams(name) \subseteq DOMAIN function_args.dict
    /\ DOMAIN function_args.dict \subseteq RequiredParams(name) \cup OptionalParams(name)

\* the body of handler name on bound keyword arguments
HandlerBody(name, kw) ==
    CASE name = "get_weather"     -> get_weather(kw)
      [] name = "calculate"       -> calculate(kw)
      [] name = "get_stock_price" -> get_stock_price(kw)
      [] name = "send_email"      -> send_email(kw)
      [] name = "search_database" -> search_database(kw)

\* function_to_call called with function_args as keyword arguments
CallHandler(name, function_args) ==
    IF Binds(name, function_args)
    THEN HandlerBody(name, function_args.dict)
    ELSE Raised("TypeError")

----------------------------------------------------------------------------
(* The inputs of run_conversation: the query, and what the remote service   *)
(* answers.                                                                 *)

Queries == {"What's the weather like in Tokyo?", "What is 157 multiplied by 23?"}

\* message.content of a completion
Contents == {"It is rainy in Tokyo.", "157 multiplied by 23 is 3611."}

\* the call identifiers the service hands out, distinct within a message
IdPool == {"call_a", "call_b", "call_c"}

\* function.name and function.arguments of the tool calls the service may return
ToolCallPool ==
    { [name |-> "get_weather",     arguments |-> "{\"location\": \"Tokyo\"}"],
      [name |-> "get_weather",     arguments |-> "{\"location\": 5}"],
      [name |-> "get_weather",     arguments |-> "{\"location\": \"Par"],
      [name |-> "calculate",       arguments |-> "{\"expression\": \"157*23\"}"],
      [name |-> "calculate",       arguments |-> "{\"expression\": \"1/0\"}"],
      [name |-> "get_stock_price", arguments |-> "{}"],
      [name |-> "send_email",
       arguments |-> "{\"to\": \"john@example.com\", \"subject\": \"Meeting\", \"body\": \"2 PM\"}"],
      [name |-> "search_database", arguments |-> "{\"query\": \"x\", \"table\": [\"users\"]}"],
      [name |-> "get_news",        arguments |-> "{\"topic\": \"ai\"}"],
      [name |-> "get_news",        arguments |-> ""] }

\* the assistant messages' tool_calls lists of n calls, identifiers distinct
ToolCallLists(n) ==
    { [k \in 1..n |-> [id |-> ids[k],
                       function |-> [name |-> fs[k].name,
                                     arguments |-> fs[k].arguments]]] :
        ids \in { q \in [1..n -> IdPool] :
                    \A a, b \in 1..n : a # b => q[a] # q[b] },
        fs \in [1..n -> ToolCallPool] }

\* the names of the tool descriptors of the catalog
tools ==
    {"get_weather", "calculate", "get_stock_price", "send_email", "search_database"}

SystemPrompt ==
    "You are a helpful assistant with access to various tools. Use them to answer user queries accurately."

NoAnswer == "<no answer>"

NoError == "<no error>"

NoResponse == [role |-> "assistant", content |-> "<no response>", tool_calls |-> <<>>]

----------------------------------------------------------------------------
(* run_conversation *)

RelayInit ==
    /\ pc = "start"
    /\ user_query \in Queries
    /\ messages = <<>>
    /\ requests = <<>>
    /\ response_message = NoResponse
    /\ second_response = NoResponse
    /\ next_call = 0
    /\ invoked = <<>>
    /\ final_answer = NoAnswer
    /\ error = NoError

\* messages = [system message, user message]
BuildMessages ==
    /\ pc = "start"
    /\ messages' = << [role |-> "system", content |-> SystemPrompt],
                      [role |-> "user", content |-> user_query] >>
    /\ pc' = "first_request"
    /\ UNCHANGED <<user_query, requests, response_message, second_response,
                   next_call, invoked, final_answer, error>>
    /\ UNCHANGED <<calls, profile_vars, runs>>

\* the first client.chat.completions.create call, what it sends
FirstRequest ==
    [model |-> "gpt-4o", messages |-> messages,
     tools |-> <<tools>>, tool_choice |-> <<"auto">>]

\* the first completion answers
FirstCompletion ==
    /\ pc = "first_request"
    /\ requests' = Append(requests, FirstRequest)
    /\ \E content \in Contents, n \in 0..MaxCalls :
         \E tool_calls \in ToolCallLists(n) :
            response_message' = [role |-> "assistant", content |-> content,
                                 tool_calls |-> tool_calls]
    /\ pc' = "check_tool_calls"
    /\ UNCHANGED <<user_query, messages, second_response, next_call, invoked,
                   final_answer, error>>
    /\ UNCHANGED <<calls, profile_vars, runs>>

\* the first completion raises (rate limit, network failure, malformed completion)
FirstCompletionFails ==
    /\ pc = "first_request"
    /\ requests' = Append(requests, FirstRequest)
    /\ error' = "RemoteServiceError"
    /\ pc' = "failed"
    /\ UNCHANGED <<user_query, messages, response_message, second_response,
                   next_call, invoked, final_answer>>
    /\ UNCHANGED <<calls, profile_vars, runs>>

\* AppendAssistant putting the assistant message in place of the user message
AppendAssistant_overwrite ==
    /\ pc = "check_tool_calls"
    /\ response_message.tool_calls # <<>>
    /\ messages' = <<messages[1], response_message, messages[2]>>
    /\ next_call' = 1
    /\ pc' = "for_tool_calls"
    /\ UNCHANGED <<user_query, requests, response_message, second_response,
                   invoked, final_answer, error>>
    /\ UNCHANGED <<calls, profile_vars, runs>>

\* if tool_calls: messages.append(response_message)
AppendAssistant ==
    /\ pc = "check_tool_calls"
    /\ response_message.tool_calls # <<>>
    /\ messages' = Append(messages, response_message)
    /\ next_call' = 1
    /\ pc' = "for_tool_calls"
    /\ UNCHANGED <<user_query, requests, response_message, second_response,
                   invoked, final_answer, error>>
    /\ UNCHANGED <<calls, profile_vars, runs>>

\* NoToolCalls returning the query instead of the completion's content
NoToolCalls_echo_query ==
    /\ pc = "check_tool_calls"
    /\ response_message.tool_calls = <<>>
    /\ final_answer' = user_query
    /\ pc' = "done"
    /\ UNCHANGED <<user_query, messages, requests, response_message,
                   second_response, next_call, invoked, error>>
    /\ UNCHANGED <<calls, profile_vars, runs>>

\* else: final_answer = response_message.content; return final_answer
NoToolCalls ==
    /\ pc = "check_tool_calls"
    /\ response_message.tool_calls = <<>>
    /\ final_answer' = response_message.content
    /\ pc' = "done"
    /\ UNCHANGED <<user_query, messages, requests, response_message,
                   second_response, next_call, invoked, error>>
    /\ UNCHANGED <<calls, profile_vars, runs>>

\* ToolMessage tagging every result with the identifier of the turn's first call
ToolMessage_first_id(tool_call, function_response) ==
    [tool_call_id |-> response_message.tool_calls[1].id,
     role |-> "tool",
     name |-> tool_call.function.name,
     content |-> JsonDumps(function_response)]

\* the message appended for a tool call that returned
ToolMessage(tool_call, function_response) ==
    [tool_call_id |-> tool_call.id,
     role |-> "tool",
     name |-> tool_call.function.name,
     content |-> JsonDumps(function_response)]

\* one iteration of: for tool_call in tool_calls
ExecuteToolCall ==
    /\ pc = "for_tool_calls"
    /\ next_call <= Len(response_message.tool_calls)
    /\ LET tool_call == response_message.tool_calls[next_call]
           function_name == tool_call.function.name
           function_args == JsonLoads(tool_call.function.arguments)
       IN  IF function_args.raised
           THEN /\ error' = function_args.exc
                /\ pc' = "failed"
                /\ UNCHANGED <<messages, next_call, invoked>>
           ELSE IF LookupHandler(function_name).raised
           THEN /\ error' = LookupHandler(function_name).exc
                /\ pc' = "failed"
                /\ UNCHANGED <<messages, next_call, invoked>>
           ELSE LET function_to_call == LookupHandler(function_name).value
                    function_response == CallHandler(function_to_call, function_args.value)
                IN  /\ invoked' =
                          IF Binds(function_to_call, function_args.value)
                          THEN Append(invoked, [id |-> tool_call.id,
                                                name |-> function_to_call,
                                                args |-> function_args.value,
                                                outcome |-> function_response])
                          ELSE invoked
                    /\ IF function_response.raised
                       THEN /\ error' = function_response.exc
                            /\ pc' = "failed"
                            /\ UNCHANGED <<messages, next_call>>
                       ELSE /\ messages' = Append(messages,
                                  ToolMessage(tool_call, function_response.value))
                            /\ next_call' = next_call + 1
                            /\ UNCHANGED <<pc, error>>
    /\ UNCHANGED <<user_query, requests, response_message, second_response,
                   final_answer>>
    /\ UNCHANGED <<calls, profile_vars, runs>>

\* SecondRequest sending the tool catalog again
SecondRequest_with_tools ==
    [model |-> "gpt-4o", messages |-> messages,
     tools |-> <<tools>>, tool_choice |-> <<"auto">>]

\* the second client.chat.completions.create call, what it sends
SecondRequest ==
    [model |-> "gpt-4o", messages |-> messages,
     tools |-> <<>>, tool_choice |-> <<>>]

\* the second completion answers; its content is returned
SecondCompletion ==
    /\ pc = "for_tool_calls"
    /\ next_call > Len(response_message.tool_calls)
    /\ requests' = Append(requests, SecondRequest)
    /\ \E content \in Contents, n \in 0..1 :
         \E tool_calls \in ToolCallLists(n) :
            /\ second_response' = [role |-> "assistant", content |-> content,
                                   tool_calls |-> tool_calls]
            /\ final_answer' = content
    /\ pc' = "done"
    /\ UNCHANGED <<user_query, messages, response_message, next_call, invoked,
                   error>>
    /\ UNCHANGED <<calls, profile_vars, runs>>

\* SecondCompletionFails undoing the handlers' effects
SecondCompletionFails_rollback ==
    /\ pc = "for_tool_calls"
    /\ next_call > Len(response_message.tool_calls)
    /\ requests' = Append(requests, SecondRequest)
    /\ error' = "RemoteServiceError"
    /\ pc' = "failed"
    /\ invoked' = <<>>
    /\ UNCHANGED <<user_query, messages, response_message, second_response,
                   next_call, final_answer>>
    /\ UNCHANGED <<calls, profile_vars, runs>>

\* the second completion raises
SecondCompletionFails ==
    /\ pc = "for_tool_calls"
    /\ next_call > Len(response_message.tool_calls)
    /\ requests' = Append(requests, SecondRequest)
    /\ error' = "RemoteServiceError"
    /\ pc' = "failed"
    /\ UNCHANGED <<user_query, messages, response_message, second_response,
                   next_call, invoked, final_answer>>
    /\ UNCHANGED <<calls, profile_vars, runs>>

RelayNext ==
    \/ BuildMessages
    \/ FirstCompletion
    \/ FirstCompletionFails
    \/ AppendAssistant
    \/ NoToolCalls
    \/ ExecuteToolCall
    \/ SecondCompletion
    \/ SecondCompletionFails

----------------------------------------------------------------------------
(* Direct calls of the handlers, one after another, as a caller of the      *)
(* module makes them: the log keeps what each call was given and returned.  *)

\* the handler calls of the model: a name of available_functions and a payload
HandlerCallPool ==
    { [name |-> "get_weather",     arguments |-> "{\"location\": \"Tokyo\"}"],
      [name |-> "get_weather",     arguments |-> "{\"location\": \"PARIS\", \"unit\": \"fahrenheit\"}"],
      [name |-> "get_weather",     arguments |-> "{\"location\": 5}"],
      [name |-> "get_weather",     arguments |-> "[1]"],
      [name |-> "calculate",       arguments |-> "{\"expression\": \"157*23\"}"],
      [name |-> "calculate",       arguments |-> "{\"expression\": \"2 + 2\"}"],
      [name |-> "calculate",       arguments |-> "{\"expression\": \"1/0\"}"],
      [name |-> "calculate",       arguments |-> "{\"expression\": \"7//2\"}"],
      [name |-> "calculate",       arguments |-> "{\"expression\": \"9-12\"}"],
      [name |-> "calculate",       arguments |-> "{\"expression\": \"2 +\"}"],
      [name |-> "calculate",       arguments |-> "{\"expression\": \"2+a\"}"],
      [name |-> "calculate",       arguments |-> "{\"expression\": 5}"],
      [name |-> "get_stock_price", arguments |-> "{\"symbol\": \"aapl\"}"],
      [name |-> "get_stock_price", arguments |-> "{\"symbol\": \"xyz\"}"],
      [name |-> "get_stock_price", arguments |-> "{\"symbol\": 7}"],
      [name |-> "get_stock_price", arguments |-> "{}"],
      [name |-> "send_email",
       arguments |-> "{\"to\": \"john@example.com\", \"subject\": \"Meeting\", \"body\": \"2 PM\"}"],
      [name |-> "send_email",
       arguments |-> "{\"to\": \"john@example.com\", \"subject\": \"Meeting\", \"body\": \"long-body\"}"],
      [name |-> "send_email",
       arguments |-> "{\"to\": \"john@example.com\", \"subject\": \"Meeting\", \"body\": 7}"],
      [name |-> "search_database", arguments |-> "{\"query\": \"alice\"}"],
      [name |-> "search_database", arguments |-> "{\"query\": \"mouse\", \"table\": \"products\"}"],
      [name |-> "search_database", arguments |-> "{\"query\": \"x\", \"table\": \"nope\"}"],
      [name |-> "search_database", arguments |-> "{\"query\": \"x\", \"table\": [\"users\"]}"] }

HandlersInit == calls = <<>>

\* available_functions[name] called on the keyword arguments args
InvokeHandler ==
    /\ Len(calls) < MaxInvocations
    /\ \E c \in HandlerCallPool :
         LET function_args == JsonLoads(c.arguments).value
         IN  calls' = Append(calls, [name |-> c.name,
                                     args |-> function_args,
                                     outcome |-> CallHandler(c.name, function_args)])
    /\ UNCHANGED relay_vars
    /\ UNCHANGED <<profile_vars, runs>>

----------------------------------------------------------------------------
(* agents/2_pydantic_ai_validation.py: PersonProfile, and the script's two  *)
(* examples in the order __main__ runs them.                                *)

\* the bounds of Field(ge=0, le=150)
AgeMin == 0

AgeMax == 150

\* str.strip() on a sequence of characters
RECURSIVE LStrip(_)
LStrip(chars) ==
    IF chars # <<>> /\ Head(chars) = " " THEN LStrip(Tail(chars)) ELSE chars

RECURSIVE RStrip(_)
RStrip(chars) ==
    IF chars # <<>> /\ chars[Len(chars)] = " "
    THEN RStrip(SubSeq(chars, 1, Len(chars) - 1))
    ELSE chars

Strip(chars) == RStrip(LStrip(chars))

\* ValidationErrors with the upper bound of age left out
ValidationErrors_no_le(data) ==
    {f \in {"name"} : \/ ~IsStr(data.name)
                      \/ Strip(StrChars(data.name.str)) = <<>>}
    \cup
    {f \in {"age"} : \/ ~IsNum(data.age)
                     \/ data.age.num < AgeMin}
    \cup
    {f \in {"occupation"} : ~IsStr(data.occupation)}

\* the fields of data that PersonProfile rejects
ValidationErrors(data) ==
    {f \in {"name"} : \/ ~IsStr(data.name)
                      \/ Strip(StrChars(data.name.str)) = <<>>}
    \cup
    {f \in {"age"} : \/ ~IsNum(data.age)
                     \/ data.age.num < AgeMin
                     \/ data.age.num > AgeMax}
    \cup
    {f \in {"occupation"} : ~IsStr(data.occupation)}

\* PersonProfile.model_validate(data): the instance, or the ValidationError
model_validate(data) ==
    IF ValidationErrors(data) = {}
    THEN [done |-> TRUE, valid |-> TRUE,
          value |-> [name |-> [chars |-> Strip(StrChars(data.name.str))],
                     age |-> data.age.num,
                     occupation |-> data.occupation.str]]
    ELSE [done |-> TRUE, valid |-> FALSE, errors |-> ValidationErrors(data)]

ProfileNames == {"Bob", " Bob ", "   ", ""}

\* the objects a completion under the PersonProfile schema may carry
ResponseProfiles ==
    { [name |-> Str(n), age |-> Num(a), occupation |-> Str("Software Engineer")] :
        n \in ProfileNames, a \in {0, 42, 150} }

\* the data example_with_validation_error builds: the script's own (a blank
\* name, age 200) and its neighbours
LocalProfiles ==
    { [name |-> Str(n), age |-> Num(a), occupation |-> Str("Developer")] :
        n \in ProfileNames, a \in {-1, 0, 42, 150, 151, 200} }

NoCandidate == [source |-> "none"]

NotValidated == [done |-> FALSE]

NoResult == [none |-> TRUE]

ProfileInit ==
    /\ ppc = "example_person_profile"
    /\ candidate = NoCandidate
    /\ validation = NotValidated
    /\ profile_result = NoResult
    /\ api_requests = <<>>

\* get_structured_output_with_pydantic, up to the completion's answer
StructuredCompletion ==
    /\ ppc = "example_person_profile"
    /\ api_requests' = Append(api_requests,
          [model |-> "gpt-4o-2024-08-06",
           prompt |-> "Generate a profile for a software engineer named Bob.",
           response_format |-> "PersonProfile"])
    /\ \E json_response \in ResponseProfiles :
          candidate' = [source |-> "completion", data |-> json_response]
    /\ ppc' = "validate_response"
    /\ UNCHANGED <<validation, profile_result>>
    /\ UNCHANGED <<relay_vars, calls, runs>>

\* the completion call of get_structured_output_with_pydantic raises
StructuredCompletionFails ==
    /\ ppc = "example_person_profile"
    /\ api_requests' = Append(api_requests,
          [model |-> "gpt-4o-2024-08-06",
           prompt |-> "Generate a profile for a software engineer named Bob.",
           response_format |-> "PersonProfile"])
    /\ ppc' = "aborted"
    /\ UNCHANGED <<candidate, validation, profile_result>>
    /\ UNCHANGED <<relay_vars, calls, runs>>

\* validated_result = model_class.model_validate(json_response); an error is
\* caught nowhere and ends the script
ValidateResponse ==
    /\ ppc = "validate_response"
    /\ validation' = model_validate(candidate.data)
    /\ profile_result' = IF validation'.valid THEN validation'.value ELSE profile_result
    /\ ppc' = IF validation'.valid THEN "example_with_validation_error" ELSE "aborted"
    /\ UNCHANGED <<candidate, api_requests>>
    /\ UNCHANGED <<relay_vars, calls, runs>>

\* example_with_validation_error: model_validate of local data inside try
example_with_validation_error ==
    /\ ppc = "example_with_validation_error"
    /\ \E invalid_data \in LocalProfiles :
          /\ candidate' = [source |-> "local", data |-> invalid_data]
          /\ validation' = model_validate(invalid_data)
    /\ ppc' = "exit"
    /\ UNCHANGED <<profile_result, api_requests>>
    /\ UNCHANGED <<relay_vars, calls, runs>>

----------------------------------------------------------------------------
(* Concurrent executions of run_conversation, one per thread, each for its  *)
(* own query.  Each execution has its own locals; client, tools and         *)
(* available_functions are module-level and only read.  A step is one       *)
(* statement group of one execution; the steps of the executions interleave *)
(* freely.                                                                  *)

Executions == 1..NumExecutions

\* the user_query each execution is called with
ConcQuery(p) ==
    CASE p = 1 -> "What's the weather like in Tokyo?"
      [] p = 2 -> "What is 157 multiplied by 23?"
      [] OTHER -> "What's the current stock price of Apple?"

ConcCall(id, name, arguments) ==
    [id |-> id, function |-> [name |-> name, arguments |-> arguments]]

\* the tool_calls lists the first completion of an execution may carry; the
\* service may hand the same identifiers to different executions
ConcToolCallLists ==
    { <<>>,
      << ConcCall("call_a", "get_weather", "{\"location\": \"Tokyo\"}") >>,
      << ConcCall("call_a", "calculate", "{\"expression\": \"1/0\"}"),
         ConcCall("call_b", "send_email",
                  "{\"to\": \"john@example.com\", \"subject\": \"Meeting\", \"body\": \"2 PM\"}") >>,
      << ConcCall("call_b", "calculate", "{\"expression\": \"157*23\"}"),
         ConcCall("call_a", "get_stock_price", "{}") >>,
      << ConcCall("call_a", "get_news", "{\"topic\": \"ai\"}") >>,
      << ConcCall("call_a", "get_weather", "{\"location\": \"Par") >> }

\* the locals of an execution that has not started
ConcStart(p) ==
    [pc |-> "start",
     user_query |-> ConcQuery(p),
     messages |-> <<>>,
     requests |-> <<>>,
     response_message |-> NoResponse,
     second_response |-> NoResponse,
     next_call |-> 0,
     invoked |-> <<>>,
     final_answer |-> NoAnswer,
     error |-> NoError]

ConcInit == runs = [p \in Executions |-> ConcStart(p)]

\* AppendMessage on one list object that all the executions share
AppendMessage_shared_list(rs, p, m) ==
    [q \in DOMAIN rs |-> [rs[q] EXCEPT !.messages = Append(@, m)]]

\* messages.append(m) in execution p: the list is a local of that execution
AppendMessage(rs, p, m) ==
    [rs EXCEPT ![p].messages = Append(@, m)]

\* messages = [system message, user message], in execution p
ConcBuildMessages(p) ==
    /\ runs[p].pc = "start"
    /\ runs' = [runs EXCEPT
                  ![p].messages = << [role |-> "system", content |-> SystemPrompt],
                                     [role |-> "user", content |-> runs[p].user_query] >>,
                  ![p].pc = "first_request"]
    /\ UNCHANGED <<relay_vars, calls, profile_vars>>

\* what the first completion call of execution p sends
ConcFirstRequest(p) ==
    [model |-> "gpt-4o", messages |-> runs[p].messages,
     tools |-> <<tools>>, tool_choice |-> <<"auto">>]

\* the first completion of execution p answers
ConcFirstCompletion(p) ==
    /\ runs[p].pc = "first_request"
    /\ \E content \in Contents, tcs \in ConcToolCallLists :
          runs' = [runs EXCEPT
                     ![p].requests = Append(@, ConcFirstRequest(p)),
                     ![p].response_message =
                         [role |-> "assistant", content |-> content, tool_calls |-> tcs],
                     ![p].pc = "check_tool_calls"]
    /\ UNCHANGED <<relay_vars, calls, profile_vars>>

\* the first completion of execution p raises
ConcFirstCompletionFails(p) ==
    /\ runs[p].pc = "first_request"
    /\ runs' = [runs EXCEPT
                  ![p].requests = Append(@, ConcFirstRequest(p)),
                  ![p].error = "RemoteServiceError",
                  ![p].pc = "failed"]
    /\ UNCHANGED <<relay_vars, calls, profile_vars>>

\* if tool_calls: messages.append(response_message), in execution p
ConcAppendAssistant(p) ==
    /\ runs[p].pc = "check_tool_calls"
    /\ runs[p].response_message.tool_calls # <<>>
    /\ runs' = [AppendMessage(runs, p, runs[p].response_message) EXCEPT
                  ![p].next_call = 1,
                  ![p].pc = "for_tool_calls"]
    /\ UNCHANGED <<relay_vars, calls, profile_vars>>

\* else: final_answer = response_message.content; return, in execution p
ConcNoToolCalls(p) ==
    /\ runs[p].pc = "check_tool_calls"
    /\ runs[p].response_message.tool_calls = <<>>
    /\ runs' = [runs EXCEPT
                  ![p].final_answer = runs[p].response_message.content,
                  ![p].pc = "done"]
    /\ UNCHANGED <<relay_vars, calls, profile_vars>>

\* one iteration of the for loop of execution p
ConcExecuteToolCall(p) ==
    /\ runs[p].pc = "for_tool_calls"
    /\ runs[p].next_call <= Len(runs[p].response_message.tool_calls)
    /\ LET tool_call == runs[p].response_message.tool_calls[runs[p].next_call]
           function_name == tool_call.function.name
           function_args == JsonLoads(tool_call.function.arguments)
       IN  IF function_args.raised
           THEN runs' = [runs EXCEPT ![p].error = function_args.exc,
                                     ![p].pc = "failed"]
           ELSE IF LookupHandler(function_name).raised
           THEN runs' = [runs EXCEPT ![p].error = LookupHandler(function_name).exc,
                                     ![p].pc = "failed"]
           ELSE LET function_to_call == LookupHandler(function_name).value
                    function_response == CallHandler(function_to_call, function_args.value)
                    ran == IF Binds(function_to_call, function_args.value)
                           THEN [runs EXCEPT ![p].invoked =
                                    Append(@, [id |-> tool_call.id,
                                               name |-> function_to_call,
                                               args |-> function_args.value,
                                               outcome |-> function_response])]
                           ELSE runs
                IN  IF function_response.raised
                    THEN runs' = [ran EXCEPT ![p].error = function_response.exc,
                                             ![p].pc = "failed"]
                    ELSE runs' = [AppendMessage(ran, p,
                                      ToolMessage(tool_call, function_response.value))
                                    EXCEPT ![p].next_call = @ + 1]
    /\ UNCHANGED <<relay_vars, calls, profile_vars>>

\* what the second completion call of execution p sends
ConcSecondRequest(p) ==
    [model |-> "gpt-4o", messages |-> runs[p].messages,
     tools |-> <<>>, tool_choice |-> <<>>]

\* the second completion of execution p answers; its content is returned
ConcSecondCompletion(p) ==
    /\ runs[p].pc = "for_tool_calls"
    /\ runs[p].next_call > Len(runs[p].response_message.tool_calls)
    /\ \E content \in Contents :
          runs' = [runs EXCEPT
                     ![p].requests = Append(@, ConcSecondRequest(p)),
                     ![p].second_response =
                         [role |-> "assistant", content |-> content, tool_calls |-> <<>>],
                     ![p].final_answer = content,
                     ![p].pc = "done"]
    /\ UNCHANGED <<relay_vars, calls, profile_vars>>

\* the second completion of execution p raises
ConcSecondCompletionFails(p) ==
    /\ runs[p].pc = "for_tool_calls"
    /\ runs[p].next_call > Len(runs[p].response_message.tool_calls)
    /\ runs' = [runs EXCEPT
                  ![p].requests = Append(@, ConcSecondRequest(p)),
                  ![p].error = "RemoteServiceError",
                  ![p].pc = "failed"]
    /\ UNCHANGED <<relay_vars, calls, profile_vars>>

----------------------------------------------------------------------------
(* Specifications *)

Init == RelayInit /\ HandlersInit /\ ProfileInit /\ ConcInit

Next == RelayNext

\* run_conversation
Spec == Init /\ [][Next]_vars

NextHandlers == InvokeHandler

\* the handlers called directly
SpecHandlers == Init /\ [][NextHandlers]_vars

NextProfile ==
    \/ StructuredCompletion
    \/ StructuredCompletionFails
    \/ ValidateResponse
    \/ example_with_validation_error

\* the profile script
SpecProfile == Init /\ [][NextProfile]_vars

NextConcurrent ==
    \/ \E p \in Executions : ConcBuildMessages(p)
    \/ \E p \in Executions : ConcFirstCompletion(p)
    \/ \E p \in Executions : ConcFirstCompletionFails(p)
    \/ \E p \in Executions : ConcAppendAssistant(p)
    \/ \E p \in Executions : ConcNoToolCalls(p)
    \/ \E p \in Executions : ConcExecuteToolCall(p)
    \/ \E p \in Executions : ConcSecondCompletion(p)
    \/ \E p \in Executions : ConcSecondCompletionFails(p)

\* concurrent executions of run_conversation
SpecConcurrent == Init /\ [][NextConcurrent]_vars

----------------------------------------------------------------------------
(* Properties of run_conversation *)

\* tool_calls of the first completion
tool_calls == response_message.tool_calls

\* the first completion has been received
FirstAnswered == response_message # NoResponse

\* the positions of msgs that hold tool-result messages
ToolResultPositions(msgs) == {k \in 1..Len(msgs) : msgs[k].role = "tool"}

\* q is a prefix of r
IsPrefix(q, r) == Len(q) <= Len(r) /\ SubSeq(r, 1, Len(q)) = q

\* C1: when the first completion carries N >= 1 tool calls and no step fails,
\* the conversation sent in the second completion request is the system and
\* user messages, then the assistant message, then exactly N tool-result
\* messages, the k-th carrying the tool_call_id and name of the k-th call.
C1_ResultsBeforeSecondRequest ==
    Len(requests) = 2 =>
        LET sent == requests[2].messages
            N == Len(tool_calls)
        IN  /\ N >= 1
            /\ Len(sent) = 3 + N
            /\ sent[3] = response_message
            /\ ToolResultPositions(sent) = 4..(3 + N)
            /\ \A k \in 1..N :
                  /\ sent[3 + k].tool_call_id = tool_calls[k].id
                  /\ sent[3 + k].name = tool_calls[k].function.name

C1_Witness ==
    /\ pc = "done"
    /\ Len(requests) = 2
    /\ Len(tool_calls) = 2
    /\ tool_calls[1].function.name # tool_calls[2].function.name

\* C2: when the first completion carries no tool call, the value returned is
\* that completion's content, no handler has run and only the first request
\* has been issued.
C2_NoToolCallsReturnsFirstContent ==
    (FirstAnswered /\ tool_calls = <<>>) =>
        /\ invoked = <<>>
        /\ Len(requests) = 1
        /\ messages = requests[1].messages
        /\ pc \in {"check_tool_calls", "done"}
        /\ pc = "done" => final_answer = response_message.content

C2_Witness ==
    /\ pc = "done"
    /\ tool_calls = <<>>
    /\ final_answer \in Contents

\* the first call of the turn naming no handler, 0 if every call names one
FirstUnknownCall ==
    IF \E k \in 1..Len(tool_calls) :
          tool_calls[k].function.name \notin available_functions
    THEN CHOOSE k \in 1..Len(tool_calls) :
            /\ tool_calls[k].function.name \notin available_functions
            /\ \A j \in 1..(k - 1) :
                  tool_calls[j].function.name \in available_functions
    ELSE 0

\* C3: when a call of the turn names no handler, the query never returns an
\* answer, the loop never passes that call, no tool result is appended for it
\* or a later call, no handler runs for them, no second request is issued, and
\* a query that stops at that call with its arguments deserialized stops with
\* KeyError.
C3_UnknownToolAborts ==
    (FirstAnswered /\ FirstUnknownCall > 0) =>
        LET k == FirstUnknownCall
        IN  /\ pc # "done"
            /\ final_answer = NoAnswer
            /\ Len(requests) = 1
            /\ next_call <= k
            /\ Len(messages) <= 2 + k
            /\ \A m \in ToolResultPositions(messages) :
                  \A j \in k..Len(tool_calls) :
                     messages[m].tool_call_id # tool_calls[j].id
            /\ \A e \in 1..Len(invoked) :
                  \A j \in k..Len(tool_calls) : invoked[e].id # tool_calls[j].id
            /\ ( /\ pc = "failed"
                 /\ next_call = k
                 /\ tool_calls[k].function.arguments \notin MalformedPayloads )
               => error = "KeyError"

C3_Witness ==
    /\ pc = "failed"
    /\ error = "KeyError"
    /\ FirstUnknownCall = 2
    /\ Len(invoked) = 1
    /\ Len(messages) = 4

\* C4: at most two completion requests are issued; the first carries the
\* tool catalog with tool_choice "auto", the second carries neither; the
\* content of the second completion is the value returned, and nothing the
\* second completion contains leads to a handler call or a further request.
C4_AtMostTwoRequests ==
    /\ Len(requests) <= 2
    /\ Len(requests) >= 1 =>
          /\ requests[1].tools = <<tools>>
          /\ requests[1].tool_choice = <<"auto">>
    /\ Len(requests) = 2 =>
          /\ requests[2].tools = <<>>
          /\ requests[2].tool_choice = <<>>
          /\ Len(invoked) = Len(tool_calls)
          /\ \A e \in 1..Len(invoked) : invoked[e].id = tool_calls[e].id
          /\ pc \in {"done", "failed"}
          /\ pc = "done" => final_answer = second_response.content

C4_Witness ==
    /\ pc = "done"
    /\ Len(requests) = 2
    /\ second_response.tool_calls # <<>>
    /\ final_answer = second_response.content

\* the original statement of C5: no tool-result message sent in the second
\* completion request reports a handler's internal failure.
C5_NoFailureSentAsToolResult ==
    Len(requests) = 2 =>
        \A m \in ToolResultPositions(requests[2].messages) :
           "error" \notin DOMAIN requests[2].messages[m].content.json

\* C5 as amended: an exception that escapes a handler aborts the query at
\* that call (no tool result for the call, no second request, no answer), and
\* none of the handlers that let one escape is calculate; what fails inside
\* calculate comes back as its {"error": ...} value, which is appended as the
\* call's tool result and is part of any second completion request.
C5_EscapingFailureAborts ==
    \A e \in 1..Len(invoked) :
        /\ invoked[e].outcome.raised =>
              /\ invoked[e].name # "calculate"
              /\ e = Len(invoked)
              /\ pc = "failed"
              /\ error = invoked[e].outcome.exc
              /\ final_answer = NoAnswer
              /\ Len(requests) = 1
              /\ \A m \in ToolResultPositions(messages) :
                    messages[m].tool_call_id # invoked[e].id
        /\ (invoked[e].name = "calculate" /\ pc # "start") =>
              /\ ~invoked[e].outcome.raised
              /\ messages[3 + e] = [tool_call_id |-> invoked[e].id,
                                    role |-> "tool",
                                    name |-> "calculate",
                                    content |-> JsonDumps(invoked[e].outcome.value)]
              /\ Len(requests) = 2 => IsPrefix(SubSeq(messages, 1, 3 + e),
                                               requests[2].messages)

C5_Witness ==
    /\ pc = "done"
    /\ Len(requests) = 2
    /\ \E m \in ToolResultPositions(requests[2].messages) :
          /\ requests[2].messages[m].name = "calculate"
          /\ requests[2].messages[m].content.json = [error |-> "division by zero"]

\* the first call of the turn whose arguments fail to deserialize, 0 if none
FirstMalformedCall ==
    IF \E k \in 1..Len(tool_calls) :
          tool_calls[k].function.arguments \in MalformedPayloads
    THEN CHOOSE k \in 1..Len(tool_calls) :
            /\ tool_calls[k].function.arguments \in MalformedPayloads
            /\ \A j \in 1..(k - 1) :
                  tool_calls[j].function.arguments \notin MalformedPayloads
    ELSE 0

\* C6: when the arguments of a call of the turn fail to deserialize, the loop
\* never passes that call, the handlers of that call and of the later calls
\* never run, no tool result is appended for them, no second request is issued,
\* no answer is returned, and a query that stops at that call stops with the
\* deserialization error.
C6_MalformedArgumentsAbort ==
    (FirstAnswered /\ FirstMalformedCall > 0) =>
        LET k == FirstMalformedCall
        IN  /\ pc # "done"
            /\ final_answer = NoAnswer
            /\ Len(requests) = 1
            /\ next_call <= k
            /\ Len(messages) <= 2 + k
            /\ \A m \in ToolResultPositions(messages) :
                  \A j \in k..Len(tool_calls) :
                     messages[m].tool_call_id # tool_calls[j].id
            /\ \A e \in 1..Len(invoked) :
                  \A j \in k..Len(tool_calls) : invoked[e].id # tool_calls[j].id
            /\ (pc = "failed" /\ next_call = k) => error = "JSONDecodeError"

C6_Witness ==
    /\ pc = "failed"
    /\ error = "JSONDecodeError"
    /\ FirstMalformedCall = 2
    /\ tool_calls[2].function.name \in available_functions
    /\ Len(invoked) = 1
    /\ Len(messages) = 4

\* C9: the conversation starts as the system message and the user message
\* carrying the query; every step leaves it as it is or adds one message at
\* its end; the conversation sent in a request is a prefix of the conversation
\* at every later point and of the one sent in the next request.
C9_ConversationAppendOnly ==
    /\ [](pc # "start" =>
             /\ Len(messages) >= 2
             /\ messages[1] = [role |-> "system", content |-> SystemPrompt]
             /\ messages[2] = [role |-> "user", content |-> user_query]
             /\ \A r \in 1..Len(requests) : IsPrefix(requests[r].messages, messages)
             /\ Len(requests) >= 1 => requests[1].messages = SubSeq(messages, 1, 2))
    /\ [][pc # "start" =>
             \/ messages' = messages
             \/ /\ Len(messages') = Len(messages) + 1
                /\ SubSeq(messages', 1, Len(messages)) = messages]_vars

C9_Witness ==
    /\ pc = "done"
    /\ Len(messages) = 5
    /\ Len(requests) = 2
    /\ requests[1].messages # requests[2].messages

\* C10: when the query has failed at the k-th tool call of the turn or at
\* the second completion request, no answer is returned, and the handler of
\* each earlier call (of every call, at the second request) has run exactly
\* once, in the order of the calls, and returned.
C10_NoRollback ==
    (pc = "failed" /\ FirstAnswered) =>
        /\ final_answer = NoAnswer
        /\ Len(requests) = 2 => next_call = Len(tool_calls) + 1
        /\ \A j \in 1..(next_call - 1) :
              /\ Cardinality({e \in 1..Len(invoked) :
                                 invoked[e].id = tool_calls[j].id}) = 1
              /\ invoked[j].id = tool_calls[j].id
              /\ invoked[j].name = tool_calls[j].function.name
              /\ ~invoked[j].outcome.raised

C10_Witness ==
    /\ pc = "failed"
    /\ error = "RemoteServiceError"
    /\ Len(requests) = 2
    /\ Len(invoked) = 2
    /\ invoked[1].name = "send_email"

C10_WitnessAtCall ==
    /\ pc = "failed"
    /\ error = "KeyError"
    /\ next_call = 2
    /\ Len(invoked) = 1
    /\ invoked[1].name = "send_email"

----------------------------------------------------------------------------
(* Properties of the profile script and of the handlers *)

\* data is within the constraints of PersonProfile: an age of 0 to 150 and a
\* name with a character that is not a blank
MeetsConstraints(data) ==
    /\ data.age.num \in 0..150
    /\ \E k \in 1..Len(StrChars(data.name.str)) : StrChars(data.name.str)[k] # " "

\* the original statement of C7: whenever validation has rejected data, no
\* completion request has been issued.
C7_ValidationBeforeAnyRequest ==
    (validation.done /\ ~validation.valid) => api_requests = <<>>

\* C7 as amended: model_validate rejects exactly the data outside the
\* constraints; example_with_validation_error validates its local data
\* without issuing a request; a completion's data is validated after the
\* request that fetched it, which is the only request of the script.
C7_RejectsInvalidProfiles ==
    /\ [](/\ validation.done =>
               /\ validation.valid <=> MeetsConstraints(candidate.data)
               /\ ~validation.valid => validation.errors # {}
          /\ candidate.source = "completion" => Len(api_requests) = 1
          /\ Len(api_requests) <= 1)
    /\ [][candidate'.source = "local" => api_requests' = api_requests]_vars

C7_Witness ==
    /\ ppc = "exit"
    /\ candidate.source = "local"
    /\ candidate.data.name = Str("   ")
    /\ candidate.data.age = Num(200)
    /\ validation.done
    /\ ~validation.valid
    /\ validation.errors = {"name", "age"}

----------------------------------------------------------------------------
(* Properties of the concurrent executions *)

\* run_conversation run alone, from call k of the turn on conversation msgs:
\* the conversation when the loop ends, and the exception that ended it
RECURSIVE AloneDispatch(_, _, _)
AloneDispatch(tcs, k, msgs) ==
    IF k > Len(tcs)
    THEN [error |-> NoError, messages |-> msgs]
    ELSE LET function_args == JsonLoads(tcs[k].function.arguments)
             function_to_call == LookupHandler(tcs[k].function.name)
         IN  IF function_args.raised
             THEN [error |-> function_args.exc, messages |-> msgs]
             ELSE IF function_to_call.raised
             THEN [error |-> function_to_call.exc, messages |-> msgs]
             ELSE LET function_response ==
                          CallHandler(function_to_call.value, function_args.value)
                  IN  IF function_response.raised
                      THEN [error |-> function_response.exc, messages |-> msgs]
                      ELSE AloneDispatch(tcs, k + 1,
                              Append(msgs, ToolMessage(tcs[k], function_response.value)))

\* run_conversation(query) run alone against the completions first and second
\* (the service not failing): the answer, the exception, the conversation at
\* the end and the conversations sent in its requests
AloneRun(query, first, second) ==
    LET base == << [role |-> "system", content |-> SystemPrompt],
                   [role |-> "user", content |-> query] >>
    IN  IF first.tool_calls = <<>>
        THEN [answer |-> first.content, error |-> NoError,
              messages |-> base, sent |-> <<base>>]
        ELSE LET d == AloneDispatch(first.tool_calls, 1, Append(base, first))
             IN  IF d.error # NoError
                 THEN [answer |-> NoAnswer, error |-> d.error,
                       messages |-> d.messages, sent |-> <<base>>]
                 ELSE [answer |-> second.content, error |-> NoError,
                       messages |-> d.messages, sent |-> <<base, d.messages>>]

\* the single execution of Spec ends as AloneRun says
AloneRunIsSingleExecution ==
    LET alone == AloneRun(user_query, response_message, second_response)
    IN  /\ pc = "done" =>
              /\ final_answer = alone.answer
              /\ messages = alone.messages
              /\ [k \in 1..Len(requests) |-> requests[k].messages] = alone.sent
        /\ (pc = "failed" /\ error # "RemoteServiceError") =>
              /\ error = alone.error
              /\ messages = alone.messages

\* execution p is where a run alone on its query and its completions would be
ExecutionAsAlone(p) ==
    LET r == runs[p]
        alone == AloneRun(ConcQuery(p), r.response_message, r.second_response)
    IN  /\ r.user_query = ConcQuery(p)
        /\ IsPrefix(r.messages, alone.messages)
        /\ \A k \in 1..Len(r.messages) :
              r.messages[k].role = "user" => r.messages[k].content = ConcQuery(p)
        /\ Len(r.requests) <= Len(alone.sent)
        /\ \A k \in 1..Len(r.requests) : r.requests[k].messages = alone.sent[k]
        /\ r.pc = "done" =>
              /\ r.final_answer = alone.answer
              /\ r.messages = alone.messages
              /\ Len(r.requests) = Len(alone.sent)
        /\ r.pc = "failed" => r.final_answer = NoAnswer
        /\ (r.pc = "failed" /\ r.error # "RemoteServiceError") =>
              /\ r.error = alone.error
              /\ r.messages = alone.messages

\* C11: under every interleaving, each execution's conversation and the
\* conversations it sends hold its own query, its own assistant message and
\* its own tool results, exactly as a run alone on the same completions
\* builds them; its answer (or failure) is that of the run alone; and a step
\* of one execution changes nothing of another.
C11_ExecutionsDoNotInterfere ==
    /\ [](\A p \in Executions : ExecutionAsAlone(p))
    /\ [][\A p, q \in Executions :
             (p # q /\ runs'[p] # runs[p]) => runs'[q] = runs[q]]_vars

C11_Witness ==
    /\ runs[1].pc = "done"
    /\ Len(runs[1].requests) = 2
    /\ Len(runs[1].messages) = 5
    /\ runs[2].pc = "for_tool_calls"
    /\ runs[2].next_call = 2
    /\ Len(runs[2].messages) = 4
    /\ runs[2].response_message.tool_calls # runs[1].response_message.tool_calls
    /\ runs[2].response_message.tool_calls[1].id
          = runs[1].response_message.tool_calls[2].id

====
